---- MODULE Spec2Model ----
(***************************************************************************)
(* The session subsystem of the Asgardeo Node SDK: the UserSession class   *)
(* (lib/src/session/user-session.ts) running against a Store.  Every       *)
(* public method is an async function; a call runs synchronously up to its *)
(* first await, and the store completes each request it was handed at a    *)
(* later moment of its own choosing.                                       *)
(***************************************************************************)
EXTENDS Integers, Sequences, FiniteSets, TLC

\* Number of facade calls issued in one behaviour.
MaxCalls == 3

----------------------------------------------------------------------------
\* Inputs

\* Subject claims handed to createUserSession / getUUID ("" is the empty subject).
Subjects == {"", "user-42", "user-7"}

\* Token bundles (TokenResponse objects) handed to createUserSession.
Bundles ==
    { [accessToken |-> "AT1", idToken |-> "IT1"],
      [accessToken |-> "AT2", idToken |-> "IT2", refreshToken |-> "RT2"] }

\* The order in which the properties of a bundle were inserted.
FieldOrder == <<"accessToken", "idToken", "refreshToken">>

\* A session identifier: a string, seen as its uuid version and its digest.
\* ver = 0 is a string that is no uuid; EmptyId is the string "".
EmptyId == [ver |-> 0, digest |-> ""]

MalformedId == [ver |-> 0, digest |-> "not-a-real-id-shape"]

\* SessionUtils.createUUID: name-based (version 5) identifier of the subject;
\* no identifier for an empty subject.
createUUID(sub) ==
    IF sub = "" THEN EmptyId ELSE [ver |-> 5, digest |-> sub]

\* SessionUtils.validateUUID: the shape createUUID produces.
validateUUID(uuid) == uuid.ver = 5 /\ uuid.digest # ""

\* Identifiers a caller hands to getUserSession / destroyUserSession.
UUIDs == {EmptyId, MalformedId} \cup {createUUID(s) : s \in Subjects \ {""}}

----------------------------------------------------------------------------
\* Serialization

\* Variant: only the first property is written out (a partial record).
JSONstringify_truncated(sessionData) ==
    LET keys == SelectSeq(FieldOrder, LAMBDA k : k \in DOMAIN sessionData)
    IN  [wf |-> TRUE,
         body |-> [i \in 1..1 |-> <<keys[i], sessionData[keys[i]]>>]]

\* JSON.stringify(sessionData): the text {"k1":"v1",...} as its well-formedness
\* and its sequence of key/value pairs, keys in insertion order.
JSONstringify(sessionData) ==
    LET keys == SelectSeq(FieldOrder, LAMBDA k : k \in DOMAIN sessionData)
    IN  [wf |-> TRUE,
         body |-> [i \in 1..Len(keys) |-> <<keys[i], sessionData[keys[i]]>>]]

\* JSON.parse throws a SyntaxError on text that is not JSON.
JSONparseThrows(text) == ~text.wf

\* JSON.parse(text) for well-formed text: the object with the text's keys, a
\* repeated key keeping its last value.
JSONparse(text) ==
    LET keys == {text.body[i][1] : i \in DOMAIN text.body}
        lastAt(k) == CHOOSE i \in DOMAIN text.body :
                        /\ text.body[i][1] = k
                        /\ \A j \in DOMAIN text.body : text.body[j][1] = k => j <= i
    IN  [k \in keys |-> text.body[lastAt(k)][2]]

----------------------------------------------------------------------------
\* State

VARIABLES
    store,      \* the Store's contents: session id -> {} (no record) or {serialized record}
    calls,      \* the facade calls issued so far, in order of issue
    unhandled,  \* rejected promises no handler is attached to
    last,       \* id -> {b} when the latest create/destroy call on id is a resolved create of b
    gone        \* id -> a destroy that followed a create resolved true, no create called since

vars == <<store, calls, unhandled, last, gone>>

\* Failure codes
CUS1 == "NODE_CORE-CUS1-NF01"    \* InvalidSubjectError
DUS1 == "NODE_CORE-DUS1-NF01"    \* MissingIdentifierError
RAT1 == "AUTH_CORE-RAT1-NV01"    \* InvalidSessionIdError
NotFound == "SessionNotFoundError"
Unavailable == "StoreUnavailableError"
SyntaxErr == "SyntaxError"

\* A call as issued: running, nothing returned, no store call made.
NewCall(op, sub, uuid, data) ==
    [op |-> op, sub |-> sub, uuid |-> uuid, data |-> data,
     pc |-> "done", status |-> "running", code |-> "",
     retId |-> EmptyId, retData |-> {}, retBool |-> FALSE,
     io |-> <<>>, write |-> "none", text |-> {}, isValidUUID |-> FALSE,
     expect |-> {}, expectGone |-> FALSE, afterCreate |-> FALSE,
     existed |-> FALSE, storeFailed |-> FALSE, corrupt |-> FALSE]

Init ==
    /\ store = [u \in UUIDs |-> {}]
    /\ calls = <<>>
    /\ unhandled = {}
    /\ last = [u \in UUIDs |-> {}]
    /\ gone = [u \in UUIDs |-> FALSE]

----------------------------------------------------------------------------
\* The Store (external collaborator; its contract is get/set/remove by key).
\* ok = FALSE is a store call that fails or times out.

\* Store.setData(key, value): writes the value at key, replacing any record.
storeSetData(key, value, ok) ==
    IF ok THEN [store EXCEPT ![key] = {value}] ELSE store

\* Store.getData(key): the value at key; a not-found failure if there is none.
storeGetData(key, ok) ==
    IF ~ok THEN [fail |-> Unavailable, val |-> {}]
    ELSE IF store[key] = {} THEN [fail |-> NotFound, val |-> {}]
    ELSE [fail |-> "", val |-> store[key]]

\* Store.removeData(key): removes the record at key; an absent key is no error.
storeRemoveData(key, ok) ==
    IF ok THEN [store EXCEPT ![key] = {}] ELSE store

----------------------------------------------------------------------------
\* Bookkeeping of the order of calls (history, read by the properties only)

InFlight(c) == c.status = "running"

\* A create call on uuid voids what the calls in flight on uuid were issued after.
VoidOnCreate(cs, uuid) ==
    [i \in DOMAIN cs |->
        IF cs[i].uuid = uuid /\ InFlight(cs[i])
        THEN [cs[i] EXCEPT !.expect = {}, !.expectGone = FALSE, !.afterCreate = FALSE]
        ELSE cs[i]]

\* A destroy call on uuid voids the record the reads in flight on uuid were to find.
VoidOnDestroy(cs, uuid) ==
    [i \in DOMAIN cs |->
        IF cs[i].uuid = uuid /\ InFlight(cs[i])
        THEN [cs[i] EXCEPT !.expect = {}]
        ELSE cs[i]]

DestroyInFlight(uuid) ==
    \E i \in DOMAIN calls :
        calls[i].op = "destroy" /\ calls[i].uuid = uuid /\ InFlight(calls[i])

----------------------------------------------------------------------------
\* UserSession.createUserSession

\* Variant: the check of the derived id is missing.
createFails_never(user_uuid) == FALSE

\* `if (!user_uuid)`
createFails(user_uuid) == user_uuid = EmptyId

\* Variant: every session is written under one fixed key.
setDataKey_shared(user_uuid) == createUUID("user-42")

\* `setData(user_uuid, ...)`: the key the record is written under.
setDataKey(user_uuid) == user_uuid

\* Runs to completion at the call: derives the id, rejects if there is none,
\* otherwise hands setData to the store without awaiting it and resolves
\* with the id.
createUserSession(sub, sessionData) ==
    /\ Len(calls) < MaxCalls
    /\ LET user_uuid == createUUID(sub)
           c == NewCall("create", sub, user_uuid, {sessionData})
       IN  IF createFails(user_uuid)
           THEN /\ calls' = Append(calls,
                        [c EXCEPT !.status = "rejected", !.code = CUS1])
                /\ UNCHANGED <<store, unhandled, last, gone>>
           ELSE /\ calls' = Append(VoidOnCreate(calls, user_uuid),
                        [c EXCEPT !.status = "resolved", !.retId = user_uuid,
                                  !.io = <<[op |-> "setData", key |-> setDataKey(user_uuid)]>>,
                                  !.write = "pending",
                                  !.text = {JSONstringify(sessionData)}])
                /\ last' = [last EXCEPT ![user_uuid] =
                                IF DestroyInFlight(user_uuid) THEN {} ELSE {sessionData}]
                /\ gone' = [gone EXCEPT ![user_uuid] = FALSE]
                /\ UNCHANGED <<store, unhandled>>

\* The store completes the setData that call i handed it.  Nothing awaits the
\* promise: a failure is a rejection without a handler.
setDataDone(i, ok) ==
    /\ i \in DOMAIN calls
    /\ calls[i].write = "pending"
    /\ LET c == calls[i]
           value == CHOOSE t \in c.text : TRUE
       IN  /\ store' = storeSetData(c.io[1].key, value, ok)
           /\ calls' = [calls EXCEPT ![i].write = IF ok THEN "applied" ELSE "failed"]
           /\ unhandled' = IF ok THEN unhandled
                           ELSE unhandled \cup {[call |-> i, code |-> Unavailable]}
    /\ UNCHANGED <<last, gone>>

----------------------------------------------------------------------------
\* UserSession.getUserSession

\* Issues getData and suspends at the await.
getUserSession(uuid) ==
    /\ Len(calls) < MaxCalls
    /\ calls' = Append(calls,
            [NewCall("get", "", uuid, {}) EXCEPT
                !.pc = "awaitGet",
                !.io = <<[op |-> "getData", key |-> uuid]>>,
                !.expect = last[uuid],
                !.expectGone = gone[uuid]])
    /\ UNCHANGED <<store, unhandled, last, gone>>

\* Variant: a failed read is caught and the call resolves with nothing.
getUserSessionResume_swallow(c, reply) ==
    IF reply.fail # ""
    THEN [c EXCEPT !.pc = "done", !.status = "resolved"]
    ELSE [c EXCEPT !.pc = "done", !.status = "resolved",
                   !.retData = {JSONparse(CHOOSE t \in reply.val : TRUE)}]

\* Resumes with getData's reply: a failed read rejects the call, a value is
\* parsed and the call resolves with the object.
getUserSessionResume(c, reply) ==
    IF reply.fail # ""
    THEN [c EXCEPT !.pc = "done", !.status = "rejected", !.code = reply.fail]
    ELSE LET sessionData == CHOOSE t \in reply.val : TRUE
         IN  IF JSONparseThrows(sessionData)
             THEN [c EXCEPT !.pc = "done", !.status = "rejected", !.code = SyntaxErr]
             ELSE [c EXCEPT !.pc = "done", !.status = "resolved",
                            !.retData = {JSONparse(sessionData)}]

getDataDone(i, ok) ==
    /\ i \in DOMAIN calls
    /\ calls[i].pc = "awaitGet"
    /\ calls' = [calls EXCEPT ![i] =
            getUserSessionResume(
                [calls[i] EXCEPT !.existed = store[calls[i].uuid] # {},
                                 !.storeFailed = ~ok,
                                 !.corrupt = ok /\ \E t \in store[calls[i].uuid] :
                                                        JSONparseThrows(t)],
                storeGetData(calls[i].uuid, ok))]
    /\ UNCHANGED <<store, unhandled, last, gone>>

----------------------------------------------------------------------------
\* UserSession.getUUID

\* Variant: a fresh random (version 4) identifier instead of the derived one.
getUUIDResult_random(sub) == [ver |-> 4, digest |-> sub]

\* `const uuid = SessionUtils.createUUID(sub); return uuid;`
getUUIDResult(sub) == createUUID(sub)

getUUID(sub) ==
    /\ Len(calls) < MaxCalls
    /\ calls' = Append(calls,
            [NewCall("getUUID", sub, createUUID(sub), {}) EXCEPT
                !.status = "resolved", !.retId = getUUIDResult(sub)])
    /\ UNCHANGED <<store, unhandled, last, gone>>

----------------------------------------------------------------------------
\* UserSession.destroyUserSession

\* `if (!uuid)`
destroyIdMissing(uuid) == uuid = EmptyId

\* Variant: the validator's answer is ignored.
destroyProceeds_always(isValidUUID) == TRUE

\* `if (isValidUUID)`
destroyProceeds(isValidUUID) == isValidUUID

\* Variant: the failure is collapsed to a boolean.
destroyReject_asFalse(c) ==
    [c EXCEPT !.pc = "done", !.status = "resolved", !.retBool = FALSE]

\* Variant: the call goes back to waiting for a valid id instead of failing.
destroyReject_waits(c) == c

\* The else branch: rejects with AUTH_CORE-RAT1-NV01.
destroyReject(c) ==
    [c EXCEPT !.pc = "done", !.status = "rejected", !.code = RAT1]

\* Variant: resolves with whether a record was removed.
destroyResolve_removed(c, removed) ==
    [c EXCEPT !.pc = "done", !.status = "resolved", !.retBool = removed]

\* After removeData: resolves true, whether or not a record was removed.
destroyResolve(c, removed) ==
    [c EXCEPT !.pc = "done", !.status = "resolved", !.retBool = TRUE]

\* Variant: the failure of removeData is caught and the call resolves true.
destroyRemoveFailed_swallow(c) ==
    [c EXCEPT !.pc = "done", !.status = "resolved", !.retBool = TRUE,
              !.storeFailed = TRUE]

\* `await this._sessionStore.removeData(uuid)` throwing: the call rejects
\* with the store's failure.
destroyRemoveFailed(c) ==
    [c EXCEPT !.pc = "done", !.status = "rejected",
              !.code = Unavailable, !.storeFailed = TRUE]

\* The call: for an empty id builds a rejected promise that is neither
\* returned nor awaited, and goes on; then suspends at `await validateUUID`.
destroyUserSession(uuid) ==
    /\ Len(calls) < MaxCalls
    /\ unhandled' = IF destroyIdMissing(uuid)
                    THEN unhandled \cup {[call |-> Len(calls) + 1, code |-> DUS1]}
                    ELSE unhandled
    /\ calls' = Append(VoidOnDestroy(calls, uuid),
            [NewCall("destroy", "", uuid, {}) EXCEPT
                !.pc = "awaitValidate",
                !.isValidUUID = validateUUID(uuid),
                !.afterCreate = last[uuid] # {}])
    /\ last' = [last EXCEPT ![uuid] = {}]
    /\ UNCHANGED <<store, gone>>

\* Resumes with the validator's answer: issues removeData and suspends, or rejects.
destroyValidated(i) ==
    /\ i \in DOMAIN calls
    /\ calls[i].pc = "awaitValidate"
    /\ calls' = [calls EXCEPT ![i] =
            IF destroyProceeds(calls[i].isValidUUID)
            THEN [calls[i] EXCEPT
                    !.pc = "awaitRemove",
                    !.io = Append(@, [op |-> "removeData", key |-> calls[i].uuid])]
            ELSE destroyReject(calls[i])]
    /\ UNCHANGED <<store, unhandled, last, gone>>

\* The store completes removeData and the call resumes: a failed remove
\* rejects the call, a completed one resolves it.
removeDataDone(i, ok) ==
    /\ i \in DOMAIN calls
    /\ calls[i].pc = "awaitRemove"
    /\ LET c == calls[i]
           removed == store[c.uuid] # {}
       IN  /\ store' = storeRemoveData(c.uuid, ok)
           /\ calls' = [calls EXCEPT ![i] =
                    IF ok
                    THEN destroyResolve([c EXCEPT !.existed = removed], removed)
                    ELSE destroyRemoveFailed(c)]
           /\ gone' = [gone EXCEPT ![c.uuid] =
                    IF ok /\ c.afterCreate /\ calls'[i].status = "resolved"
                          /\ calls'[i].retBool
                    THEN TRUE ELSE @]
    /\ UNCHANGED <<unhandled, last>>

----------------------------------------------------------------------------

Next ==
    \/ \E sub \in Subjects, sessionData \in Bundles : createUserSession(sub, sessionData)
    \/ \E i \in 1..MaxCalls, ok \in BOOLEAN : setDataDone(i, ok)
    \/ \E uuid \in UUIDs : getUserSession(uuid)
    \/ \E i \in 1..MaxCalls, ok \in BOOLEAN : getDataDone(i, ok)
    \/ \E sub \in Subjects : getUUID(sub)
    \/ \E uuid \in UUIDs : destroyUserSession(uuid)
    \/ \E i \in 1..MaxCalls : destroyValidated(i)
    \/ \E i \in 1..MaxCalls, ok \in BOOLEAN : removeDataDone(i, ok)

Spec == Init /\ [][Next]_vars

\* The validator and every store call handed out eventually complete.
Completes ==
    \A i \in 1..MaxCalls :
        /\ WF_vars(destroyValidated(i))
        /\ WF_vars(\E ok \in BOOLEAN : setDataDone(i, ok))
        /\ WF_vars(\E ok \in BOOLEAN : getDataDone(i, ok))
        /\ WF_vars(\E ok \in BOOLEAN : removeDataDone(i, ok))

\* The calls of Next on one subject and one bundle: each method, and each of
\* its paths (no id derived, empty id, malformed id, valid id), is there.
LiveSubjects == {"", "user-42"}

LiveBundle == [accessToken |-> "AT1", idToken |-> "IT1"]

LiveUUIDs == {EmptyId, MalformedId, createUUID("user-42")}

NextLive ==
    \/ \E sub \in LiveSubjects : createUserSession(sub, LiveBundle)
    \/ \E i \in 1..MaxCalls, ok \in BOOLEAN : setDataDone(i, ok)
    \/ \E uuid \in LiveUUIDs \ {EmptyId} : getUserSession(uuid)
    \/ \E i \in 1..MaxCalls, ok \in BOOLEAN : getDataDone(i, ok)
    \/ \E sub \in LiveSubjects : getUUID(sub)
    \/ \E uuid \in LiveUUIDs : destroyUserSession(uuid)
    \/ \E i \in 1..MaxCalls : destroyValidated(i)
    \/ \E i \in 1..MaxCalls, ok \in BOOLEAN : removeDataDone(i, ok)

SpecLive == Init /\ [][NextLive]_vars /\ Completes

\* A stored value that is not JSON (a record damaged or written by another
\* client of the store).
CorruptText == [wf |-> FALSE, body |-> <<>>]

\* The store holds such a value under one key when the manager is constructed.
InitCorrupt ==
    /\ \E u \in UUIDs \ {EmptyId} :
          store = [v \in UUIDs |-> IF v = u THEN {CorruptText} ELSE {}]
    /\ calls = <<>>
    /\ unhandled = {}
    /\ last = [u \in UUIDs |-> {}]
    /\ gone = [u \in UUIDs |-> FALSE]

SpecCorrupt == InitCorrupt /\ [][Next]_vars

----------------------------------------------------------------------------
\* Properties

Settled(c) == c.status # "running"

Rejected(c, code) == c.status = "rejected" /\ c.code = code

CreatesOn(uuid) ==
    {i \in DOMAIN calls : calls[i].op = "create" /\ calls[i].retId = uuid
                          /\ calls[i].status = "resolved"}

\* C1: a getUserSession(X) issued after createUserSession(s, b) resolved with
\* X, with no other create or destroy on X in between, resolves with a value
\* equal to b (the store answering the read).
C1_RoundTrip ==
    \A i \in DOMAIN calls :
        (/\ calls[i].op = "get"
         /\ Settled(calls[i])
         /\ calls[i].expect # {}
         /\ ~calls[i].storeFailed)
        => /\ calls[i].status = "resolved"
           /\ calls[i].retData = calls[i].expect

\* C2: destroyUserSession("") fails with MissingIdentifierError
\* (NODE_CORE-DUS1-NF01), and has made no store call.
C2_EmptyIdIsMissingIdentifier ==
    \A i \in DOMAIN calls :
        (calls[i].op = "destroy" /\ calls[i].uuid = EmptyId /\ Settled(calls[i]))
        => Rejected(calls[i], DUS1) /\ calls[i].io = <<>>

\* C3: every removeData issued carries the id of a destroy call for which the
\* validator returned true; a destroy call with an empty or invalid-shaped id
\* has issued no store call at all.
C3_OnlyValidatedIdsReachRemove ==
    \A i \in DOMAIN calls :
        /\ \A k \in DOMAIN calls[i].io :
              calls[i].io[k].op = "removeData"
              => /\ calls[i].op = "destroy"
                 /\ calls[i].io[k].key = calls[i].uuid
                 /\ calls[i].isValidUUID
                 /\ validateUUID(calls[i].io[k].key)
        /\ (calls[i].op = "destroy"
            /\ (calls[i].uuid = EmptyId \/ ~validateUUID(calls[i].uuid)))
           => calls[i].io = <<>>

C3_Witness ==
    /\ \E i \in DOMAIN calls :
          /\ calls[i].op = "destroy"
          /\ calls[i].io = <<[op |-> "removeData", key |-> calls[i].uuid]>>
    /\ \E j \in DOMAIN calls :
          /\ calls[j].op = "destroy" /\ calls[j].uuid = MalformedId
          /\ Settled(calls[j]) /\ calls[j].io = <<>>
    /\ \E j \in DOMAIN calls :
          /\ calls[j].op = "destroy" /\ calls[j].uuid = EmptyId
          /\ Settled(calls[j]) /\ calls[j].io = <<>>

\* A destroy call with a non-empty id the validator rejects.
InvalidDestroy(c) ==
    c.op = "destroy" /\ c.uuid # EmptyId /\ ~validateUUID(c.uuid)

C4_Rejected ==
    \A i \in DOMAIN calls :
        (InvalidDestroy(calls[i]) /\ Settled(calls[i]))
        => Rejected(calls[i], RAT1) /\ calls[i].io = <<>>

C4_StepKeepsStore ==
    /\ \A i \in DOMAIN calls :
          (InvalidDestroy(calls[i]) /\ calls'[i] # calls[i] /\ Settled(calls'[i]))
          => store' = store
    /\ (Len(calls') > Len(calls) /\ InvalidDestroy(calls'[Len(calls')]))
       => store' = store

\* C4: destroyUserSession with a non-empty id the validator rejects fails with
\* InvalidSessionIdError (AUTH_CORE-RAT1-NV01), and neither the step that
\* issues the call nor the step that settles it changes the store.
C4_InvalidIdRejectedStoreKept ==
    []C4_Rejected /\ [][C4_StepKeepsStore]_vars

C4_Witness ==
    \E i \in DOMAIN calls :
        /\ InvalidDestroy(calls[i]) /\ Rejected(calls[i], RAT1)
        /\ \E u \in UUIDs : store[u] # {}

\* C5: once destroyUserSession(X) has resolved true after a createUserSession
\* that resolved with X, and no create for X is called afterwards, the record
\* at X is absent and every getUserSession(X) issued from then on fails with
\* SessionNotFoundError (the store answering the read).
C5_DestroyedStaysGone ==
    /\ \A u \in UUIDs : gone[u] => store[u] = {}
    /\ \A i \in DOMAIN calls :
          (/\ calls[i].op = "get" /\ Settled(calls[i])
           /\ calls[i].expectGone /\ ~calls[i].storeFailed)
          => Rejected(calls[i], NotFound)

\* C6: after createUserSession(s, b1) resolved and then createUserSession(s, b2)
\* resolved, once the store has completed both writes the record at derive(s)
\* is the serialization of b2.
C6_OverwriteOnRecreate ==
    \A u \in UUIDs :
        (/\ Cardinality(CreatesOn(u)) >= 2
         /\ last[u] # {}
         /\ \A i \in CreatesOn(u) : calls[i].write # "pending")
        => /\ store[u] # {}
           /\ \A t \in store[u] : ~JSONparseThrows(t) /\ {JSONparse(t)} = last[u]

\* C7: a store call that fails rejects the operation that made it with the
\* store failure: no createUserSession whose setData failed has resolved, and
\* every getUserSession / destroyUserSession whose store call failed is
\* rejected with it.
C7_StoreFailureSurfaces ==
    \A i \in DOMAIN calls :
        /\ calls[i].write = "failed" => Rejected(calls[i], Unavailable)
        /\ calls[i].storeFailed => Rejected(calls[i], Unavailable)

\* A destroy call with an id the validator accepts.
ValidDestroy(c) == c.op = "destroy" /\ validateUUID(c.uuid)

C8_ResolvesTrue ==
    \A i \in DOMAIN calls :
        (ValidDestroy(calls[i]) /\ Settled(calls[i]) /\ ~calls[i].storeFailed)
        => calls[i].status = "resolved" /\ calls[i].retBool

C8_StepLeavesAbsent ==
    \A i \in DOMAIN calls :
        (calls[i].pc = "awaitRemove" /\ calls'[i].status = "resolved")
        => store'[calls[i].uuid] = {}

\* C8: every destroyUserSession on a valid-shaped id whose remove the store
\* completed resolves true, a second call on the same id like the first and
\* whether or not a record was there; the record is absent when it resolves.
C8_IdempotentDestroy ==
    []C8_ResolvesTrue /\ [][C8_StepLeavesAbsent]_vars

C8_Witness ==
    \E i, j \in DOMAIN calls :
        /\ i < j
        /\ ValidDestroy(calls[i]) /\ ValidDestroy(calls[j])
        /\ calls[i].uuid = calls[j].uuid
        /\ calls[i].status = "resolved" /\ calls[i].retBool /\ calls[i].existed
        /\ calls[j].status = "resolved" /\ calls[j].retBool /\ ~calls[j].existed
        /\ store[calls[j].uuid] = {}

\* C9: createUserSession with a subject for which no id is derived rejects
\* with InvalidSubjectError (NODE_CORE-CUS1-NF01), issues no store call, and
\* no record is ever written under the empty id.
C9_InvalidSubjectRejected ==
    /\ \A i \in DOMAIN calls :
          (calls[i].op = "create" /\ createUUID(calls[i].sub) = EmptyId)
          => /\ Rejected(calls[i], CUS1)
             /\ calls[i].io = <<>>
             /\ calls[i].write = "none"
    /\ store[EmptyId] = {}

C9_Witness ==
    \E i \in DOMAIN calls :
        /\ calls[i].op = "create" /\ calls[i].sub = ""
        /\ Rejected(calls[i], CUS1)
        /\ \E u \in UUIDs : store[u] # {}

C12_SameIdNoStoreCall ==
    \A i \in DOMAIN calls :
        calls[i].op = "getUUID"
        => /\ calls[i].status = "resolved"
           /\ calls[i].io = <<>> /\ calls[i].write = "none"
           /\ \A j \in DOMAIN calls :
                 (calls[j].sub = calls[i].sub /\ calls[i].sub # "")
                 => /\ calls[j].op = "getUUID" => calls[j].retId = calls[i].retId
                    /\ calls[j].op = "create"
                       => /\ calls[j].status = "resolved"
                          /\ calls[j].retId = calls[i].retId
                          /\ calls[j].io = <<[op |-> "setData", key |-> calls[i].retId]>>

C12_StepKeepsStore ==
    (Len(calls') > Len(calls) /\ calls'[Len(calls')].op = "getUUID")
    => store' = store /\ unhandled' = unhandled

\* C12: getUUID(s) issues no store call and its step leaves the store as it
\* is; for a non-empty s every call returns the same identifier, the one
\* createUserSession(s, b) returns and writes the record under.
C12_GetUUIDPureAndStable ==
    []C12_SameIdNoStoreCall /\ [][C12_StepKeepsStore]_vars

C12_Witness ==
    \E i, k, j \in DOMAIN calls :
        /\ i < k
        /\ calls[i].op = "getUUID" /\ calls[k].op = "getUUID"
        /\ calls[i].sub # "" /\ calls[k].sub = calls[i].sub
        /\ calls[j].op = "create" /\ calls[j].sub = calls[i].sub
        /\ calls[j].write = "applied"
        /\ store[calls[i].retId] # {}

\* C13: a createUserSession that has resolved with an id has had its setData
\* completed by the store: its write is applied, not still pending and not
\* failed.
C13_ResolvedAfterWrite ==
    \A i \in DOMAIN calls :
        (calls[i].op = "create" /\ calls[i].status = "resolved")
        => calls[i].write = "applied"

C14_RemoveIssuedAndDone ==
    \A i \in DOMAIN calls :
        (calls[i].op = "destroy" /\ calls[i].status = "resolved")
        => /\ calls[i].retBool
           /\ calls[i].pc = "done"
           /\ calls[i].io = <<[op |-> "removeData", key |-> calls[i].uuid]>>
           /\ ~calls[i].storeFailed

C14_ResolvesAtRemoveDone ==
    \A i \in DOMAIN calls :
        (calls[i].op = "destroy" /\ calls[i].status = "running"
         /\ calls'[i].status = "resolved")
        => /\ calls[i].pc = "awaitRemove"
           /\ store'[calls[i].uuid] = {}

\* C14: a destroyUserSession that has resolved has resolved true, has issued
\* one removeData for its id, and that remove has completed without failure;
\* it resolves at the step the remove completes, the record then absent.
C14_TrueOnlyAfterRemove ==
    []C14_RemoveIssuedAndDone /\ [][C14_ResolvesAtRemoveDone]_vars

C14_Witness ==
    \E i \in DOMAIN calls :
        /\ calls[i].op = "destroy" /\ calls[i].status = "resolved"
        /\ calls[i].retBool /\ calls[i].existed
        /\ store[calls[i].uuid] = {}

\* C15: in every reachable state the value stored at a key is absent or the
\* serialization of one whole token bundle that some createUserSession call,
\* whose subject derives to that key, was given; never a partial or mixed
\* record.
C15_WholesaleRecords ==
    \A u \in UUIDs :
        /\ Cardinality(store[u]) <= 1
        /\ \A t \in store[u] :
              /\ ~JSONparseThrows(t)
              /\ \E i \in DOMAIN calls :
                    /\ calls[i].op = "create"
                    /\ createUUID(calls[i].sub) = u
                    /\ calls[i].data = {JSONparse(t)}

\* A record is present at an id after a destroy on that id removed one: two
\* creates and a destroy on the same id have interleaved.
C15_Witness ==
    \E u \in UUIDs :
        /\ store[u] # {}
        /\ \E j \in DOMAIN calls :
              /\ calls[j].op = "destroy" /\ calls[j].uuid = u
              /\ calls[j].status = "resolved" /\ calls[j].existed
        /\ \E i, k \in DOMAIN calls :
              /\ i # k
              /\ calls[i].op = "create" /\ calls[k].op = "create"
              /\ calls[i].retId = u /\ calls[k].retId = u
              /\ calls[i].data # calls[k].data

C16_StepTouchesOwnKey ==
    /\ \A u \in UUIDs :
          store'[u] # store[u]
          => \E i \in DOMAIN calls :
                /\ calls'[i] # calls[i]
                /\ \/ calls[i].op = "create" /\ createUUID(calls[i].sub) = u
                   \/ calls[i].op = "destroy" /\ calls[i].uuid = u
    /\ \A i \in DOMAIN calls :
          (calls[i].op = "get" /\ calls'[i].pc # calls[i].pc) => store' = store
    /\ (Len(calls') > Len(calls) /\ calls'[Len(calls')].op = "get")
       => store' = store

\* C16: a step changes the record at a key only on behalf of a
\* createUserSession whose subject derives to that key or of a
\* destroyUserSession of that key; records under every other key are left as
\* they are, and no step of a getUserSession changes any record.
C16_IndependentKeys == [][C16_StepTouchesOwnKey]_vars

C16_Witness ==
    \E u, v \in UUIDs :
        /\ u # v
        /\ store[u] = {} /\ store[v] # {}
        /\ \E j \in DOMAIN calls :
              /\ calls[j].op = "destroy" /\ calls[j].uuid = u
              /\ calls[j].status = "resolved" /\ calls[j].existed

\* C17: every id a createUserSession resolved with is one the validator
\* accepts, so is every key handed to setData and every key that holds a
\* record; a destroyUserSession of such an id never fails with
\* InvalidSessionIdError or MissingIdentifierError (it resolves true, the
\* store completing the remove).
C17_CreatedIdsAreDestroyable ==
    /\ \A i \in DOMAIN calls :
          /\ (calls[i].op = "create" /\ calls[i].status = "resolved")
             => validateUUID(calls[i].retId)
          /\ \A k \in DOMAIN calls[i].io :
                calls[i].io[k].op = "setData" => validateUUID(calls[i].io[k].key)
    /\ \A u \in UUIDs : store[u] # {} => validateUUID(u)
    /\ \A i, j \in DOMAIN calls :
          (/\ calls[i].op = "create" /\ calls[i].status = "resolved"
           /\ calls[j].op = "destroy" /\ calls[j].uuid = calls[i].retId
           /\ Settled(calls[j]))
          => \/ calls[j].status = "resolved" /\ calls[j].retBool
             \/ calls[j].storeFailed /\ Rejected(calls[j], Unavailable)

C17_Witness ==
    \E i, j \in DOMAIN calls :
        /\ i < j
        /\ calls[i].op = "create" /\ calls[i].status = "resolved"
        /\ calls[i].write = "applied"
        /\ calls[j].op = "destroy" /\ calls[j].uuid = calls[i].retId
        /\ calls[j].status = "resolved" /\ calls[j].retBool /\ calls[j].existed

\* C18: no call leaves a rejected promise that nobody observes: every failure
\* a call constructs or receives from the store is the outcome delivered to
\* its caller.
C18_NoUnobservedRejection ==
    /\ unhandled = {}
    /\ \A i \in DOMAIN calls :
          calls[i].status = "rejected" => calls[i].pc = "done" /\ calls[i].code # ""

\* C19: the validator and every store call completing, every call that was
\* issued (create, get, getUUID, destroy) eventually settles.
C19_EveryCallSettles ==
    \A i \in 1..MaxCalls :
        (i \in DOMAIN calls) ~> (i \in DOMAIN calls /\ Settled(calls[i]))

C19_Witness ==
    /\ Len(calls) = MaxCalls
    /\ \A i \in DOMAIN calls : Settled(calls[i])
    /\ \E i \in DOMAIN calls :
          calls[i].op = "destroy" /\ calls[i].io # <<>>
    /\ \E i \in DOMAIN calls :
          calls[i].op = "destroy" /\ Rejected(calls[i], RAT1)
    /\ \E i \in DOMAIN calls : calls[i].op = "get"

\* The structured failure kind of a value that cannot be deserialized.
Corrupt == "CorruptSessionError"

\* C11: a getUserSession whose read returns a value that cannot be
\* deserialized fails with CorruptSessionError, a structured failure that is
\* neither SessionNotFoundError nor a store failure, and the stored value is
\* still there.
C11_CorruptReadIsStructured ==
    \A i \in DOMAIN calls :
        (calls[i].op = "get" /\ Settled(calls[i]) /\ calls[i].corrupt)
        => Rejected(calls[i], Corrupt)

\* C10: a getUserSession whose read finds no record at the id, valid-shaped
\* or not, fails with SessionNotFoundError: never with InvalidSessionIdError,
\* never with a value.
C10_NotFoundRead ==
    \A i \in DOMAIN calls :
        (/\ calls[i].op = "get" /\ Settled(calls[i])
         /\ ~calls[i].existed /\ ~calls[i].storeFailed)
        => Rejected(calls[i], NotFound) /\ calls[i].retData = {}

C10_Witness ==
    /\ \E i \in DOMAIN calls :
          /\ calls[i].op = "get" /\ calls[i].uuid = MalformedId
          /\ Rejected(calls[i], NotFound)
    /\ \E i \in DOMAIN calls :
          /\ calls[i].op = "get" /\ validateUUID(calls[i].uuid)
          /\ Rejected(calls[i], NotFound)

====
